---------------------------- MODULE Spec2Model ----------------------------
(***************************************************************************)
(* A model of the persistent-connection client (connection.py,             *)
(* EmpyrionConnection) and of the monitoring service that keeps it alive   *)
(* (background_service.py, BackgroundService).                             *)
(*                                                                         *)
(* Two specifications share the definitions of the client's methods:       *)
(*   SpecConn  one EmpyrionConnection used by one sequential caller, who   *)
(*             calls connect, disconnect, send_command and                 *)
(*             is_connection_alive in any order;                           *)
(*   Spec      the BackgroundService: its monitor thread, a request        *)
(*             handler thread (refresh_entities) and a control thread      *)
(*             calling start() and stop(), interleaved statement by        *)
(*             statement at the reads and writes of the shared fields.     *)
(* The remote server and the network are the environment: every reply and  *)
(* every I/O failure is a nondeterministic choice.                         *)
(***************************************************************************)
EXTENDS Integers, Sequences, FiniteSets

\* ------------------------------------------------------------------ bounds

\* EmpyrionConnection objects that exist at one time.  An object is reused
\* once nothing references it, so raising the bound adds no behaviour.
MaxConns == 3
\* Sockets one client may have open at once before connect() is no longer
\* explored (a client that overwrites an open socket leaks it).
MaxOpenSockets == 2
\* reconnect_attempts is explored up to this value.
MaxAttempts == 3
\* The reconnect delay is computed for the attempt counts 1..MaxDelayAttempt.
MaxDelayAttempt == 60
\* Roster lines in one reply given to the parsers and the merge.
MaxRecords == 3

\* -------------------------------------------------------- program constants

MONITOR_INTERVAL == 20
RECONNECT_DELAY == 30
MAX_RECONNECT_DELAY == 300
ERROR_PAUSE == 5
NumAuthMethods == 4
NumUsernames == 3

\* ------------------------------------------------------------------- state

Threads == {"mon", "old", "sch", "req", "ctl", "stat", "cli"}
Conns == 1..MaxConns
NoConn == 0

VARIABLES
    \* BackgroundService fields
    is_running,          \* self.is_running
    is_connected,        \* self.is_connected
    connection_handler,  \* self.connection_handler: a Conns id, or NoConn for None
    reconnect_attempts,  \* self.reconnect_attempts
    stop_event,          \* self.stop_event is set
    wait_timeout,        \* the timeout of the monitor loop's current stop_event.wait
    \* EmpyrionConnection fields, per object
    conn_socket,         \* self.socket is not None
    conn_is_connected,   \* self.is_connected
    orphan_sockets,      \* open sockets the object created and no longer refers to
    in_flight,           \* threads that wrote a command and have not read its reply
    \* per thread
    at,                  \* position in the thread's own code
    pc,                  \* position inside the client method being executed
    self_conn,           \* the object the executing client method is bound to
    res,                 \* the value the last client method returned
    io,                  \* what the last send_command did on the wire
    writes,              \* socket writes made by the current send_command call
    meth,                \* the client method being executed, or the last one executed
    auth_i,              \* index into auth_methods of the running connect()
    tried,               \* (method, outcome) of every strategy the running connect() tried
    \* history
    fail_streak,         \* monitor connect attempts that failed since the last success or start()
    \* get_connection_status
    status_snap,         \* the fields the status read in progress has copied so far
    status_seen,         \* history: the MonitorStates of that read's instants that
                         \* agree with the fields copied so far
    \* arguments and results of the pure functions
    delay_in,            \* the attempt count the reconnect delay is computed for
    delay_out,           \* the delay computed for it (0: not computed yet)
    players_in,          \* the parsed partial records given to _merge_player_data
    players_out,         \* the list _merge_player_data returned
    \* the game server, and player tracking
    server_down,         \* the game server accepts no TCP connection
    server_players,      \* the roster the game server holds: what a 'plys' reply parses to
    previous_players,    \* self.previous_players: the last roster compared, by id
    current_players,     \* the roster the last _detect_status_changes call was given
    db_players,          \* the roster last given to player_db.update_multiple_players
    status_events        \* the <<id, kind>> the last _detect_status_changes logged

svc_vars == <<is_running, is_connected, connection_handler, reconnect_attempts,
              stop_event, wait_timeout, fail_streak>>
conn_vars == <<conn_socket, conn_is_connected, orphan_sockets, in_flight>>
call_vars == <<pc, self_conn, res, io, writes, meth, auth_i, tried>>
stat_vars == <<status_snap, status_seen>>
pure_vars == <<delay_in, delay_out, players_in, players_out>>
track_vars == <<server_down, server_players, previous_players, current_players, db_players,
                status_events>>
vars == <<svc_vars, conn_vars, at, call_vars, stat_vars, pure_vars, track_vars>>

\* The fields get_connection_status copies (last_attempt, a timestamp, is
\* left out), and their values after the step.
MonitorState == <<is_connected, reconnect_attempts, is_running>>
MonitorStateNext == <<is_connected', reconnect_attempts', is_running'>>

\* A status read is between its first and its last field.
StatusReading == at["stat"] \in {"read_attempts", "read_running"}

\* The MonitorStates among instants whose leading fields are the ones copied.
Agreeing(copied, instants) ==
    {m \in instants : \A i \in 1..Len(copied) : m[i] = copied[i]}

\* What every step of the service and of a client does to the status
\* history: a status read in progress has overlapped the state the step
\* produces; the pure functions' arguments and results are not touched.
BackgroundStatus ==
    /\ status_snap' = status_snap
    /\ status_seen' =
           IF StatusReading
           THEN status_seen \cup Agreeing(status_snap, {MonitorStateNext})
           ELSE status_seen
    /\ UNCHANGED pure_vars

\* The same for a step that does not reach the player tracking.
Background ==
    /\ BackgroundStatus
    /\ UNCHANGED track_vars

\* ------------------------------------------------------ player tracking

\* The ids the tracked rosters are drawn from, and a roster as the dict
\* {p['steam_id']: p} of line 608, reduced to each player's status.
TrackedIds == {"7", "9", "11"}
Rosters == UNION {[S -> {"Online", "Offline"}] : S \in SUBSET TrackedIds}
EmptyRoster == [id \in {} |-> "Offline"]

\* _detect_status_changes, lines 611-626: the lines logged for roster cur
\* against prev.
StatusEvents(prev, cur) ==
    {<<id, "joined">> : id \in {i \in DOMAIN cur \cap DOMAIN prev :
                                  prev[i] = "Offline" /\ cur[i] = "Online"}}
    \cup {<<id, "left">> : id \in {i \in DOMAIN cur \cap DOMAIN prev :
                                  prev[i] = "Online" /\ cur[i] = "Offline"}}
    \cup {<<id, "new">> : id \in {i \in DOMAIN cur \ DOMAIN prev : cur[i] = "Online"}}

\* Mutant of DetectStatusChanges: previous_players is not replaced.
DetectStatusChangesKeepingPrevious(cur) ==
    IF ~is_running THEN UNCHANGED <<previous_players, status_events>>
    ELSE /\ status_events' = StatusEvents(previous_players, cur)
         /\ previous_players' = previous_players

\* _detect_status_changes(cur), lines 604-629.
DetectStatusChanges(cur) ==
    IF ~is_running THEN UNCHANGED <<previous_players, status_events>>
    ELSE /\ status_events' = StatusEvents(previous_players, cur)
         /\ previous_players' = cur

\* ------------------------------------------------------- the wire (replies)

\* What a read returns, by the markers the code looks for in it.
Replies == {"", "other", "login", "help", "login_help"}
\* "Logged in successfully" in reply
HasLoginMarker(r) == r \in {"login", "login_help"}
\* "Available commands" in reply or "help" in reply.lower()
HasHelpMarker(r) == r \in {"help", "login_help"}
\* One exchange of an authentication strategy: the send raised, or a reply
\* (possibly empty) was read.
Exchanges == {"senderr"} \cup Replies

AuthName == <<"standard", "direct_command", "username_password", "newline_only">>

\* ------------------------------------------------- EmpyrionConnection state

\* __init__
NewConnection(c) ==
    /\ conn_socket' = [conn_socket EXCEPT ![c] = FALSE]
    /\ conn_is_connected' = [conn_is_connected EXCEPT ![c] = FALSE]
    /\ orphan_sockets' = [orphan_sockets EXCEPT ![c] = 0]
    /\ in_flight' = [in_flight EXCEPT ![c] = {}]

\* Mutant of DisconnectFields: the socket is closed and cleared but
\* is_connected is left as it was.
DisconnectFieldsKeepsFlag(c) ==
    /\ conn_is_connected' = conn_is_connected
    /\ conn_socket' = [conn_socket EXCEPT ![c] = FALSE]

\* disconnect(): close the socket if there is one, clear both fields.
DisconnectFields(c) ==
    /\ conn_is_connected' = [conn_is_connected EXCEPT ![c] = FALSE]
    /\ conn_socket' = [conn_socket EXCEPT ![c] = FALSE]

\* The sockets of object c that are open.
OpenSockets(c) == orphan_sockets[c] + (IF conn_socket[c] THEN 1 ELSE 0)

\* send_command's and is_connection_alive's entry test.
CanSend(c) == conn_is_connected[c] /\ conn_socket[c]

\* send_command's return value for a reply that was read: the reply, or None.
ResponseOf(reply) == IF reply # "" THEN reply ELSE "None"

\* Python truthiness of a send_command result: None is falsy, the error dict
\* and a non-empty reply are truthy.
Truthy(r) == r # "None"

\* _auth_standard / _auth_newline_only: credential sent, success marker expected.
AuthCredential(x) == x # "senderr" /\ HasLoginMarker(x)
\* _auth_direct_command: probe sent, command list expected.
AuthDirectCommand(x) == x # "senderr" /\ HasHelpMarker(x)
\* _auth_username_password: the usernames in turn; a raised send ends the
\* strategy, the first success marker wins.
RECURSIVE AuthUsernamePasswordFrom(_, _)
AuthUsernamePasswordFrom(xs, u) ==
    IF u > NumUsernames THEN FALSE
    ELSE IF xs[u] = "senderr" THEN FALSE
    ELSE IF HasLoginMarker(xs[u]) THEN TRUE
    ELSE AuthUsernamePasswordFrom(xs, u + 1)
AuthUsernamePassword(xs) == AuthUsernamePasswordFrom(xs, 1)

\* auth_func() for auth_methods[i], given the exchanges the strategy has
\* with the server (only username_password has more than one).
AuthFunc(i, xs) ==
    CASE i = 1 -> AuthCredential(xs[1])
      [] i = 2 -> AuthDirectCommand(xs[1])
      [] i = 3 -> AuthUsernamePassword(xs)
      [] OTHER -> AuthCredential(xs[1])


\* is_connection_alive: "response is not None".
IsConnectionAlive(r) == IF r # "None" THEN "True" ELSE "False"

\* get_players after send_command("plys"): [] when the response is falsy; the
\* error dict has no split(), so the handler returns its own error dict; a
\* reply is parsed and merged into a list.
GetPlayers(r) ==
    IF ~Truthy(r) THEN "EmptyList"
    ELSE IF r = "Err" THEN "Err"
    ELSE "List"

\* kick_player / ban_player / unban_player: "if response: return True",
\* else False.
CommandWrapper(r) == IF Truthy(r) THEN "True" ELSE "False"

\* What the executing method returns, given what its send_command returned.
Returned(m, r) ==
    CASE m = "alive" -> IsConnectionAlive(r)
      [] m = "plys" -> GetPlayers(r)
      [] m = "kick" -> CommandWrapper(r)
      [] OTHER -> r

\* --------------------------------------------- EmpyrionConnection methods
\* Each action is one step of thread t inside a method of self_conn[t].

\* send_command, from its entry test to the write (also the entry test of
\* is_connection_alive, which reads the same fields).  Nothing is written
\* when the client is not connected; the write may raise, which clears
\* is_connected and returns the error dict.
SendCommandSend(t) ==
    LET c == self_conn[t] IN
    /\ pc[t] = "sc_send"
    /\ IF ~CanSend(c) THEN
          /\ res' = [res EXCEPT ![t] = Returned(meth[t], "None")]
          /\ io' = [io EXCEPT ![t] = "notconnected"]
          /\ pc' = [pc EXCEPT ![t] = "ret"]
          /\ UNCHANGED <<conn_vars, writes>>
       ELSE
          /\ writes' = [writes EXCEPT ![t] = @ + 1]
          /\ \E sent \in BOOLEAN :
               IF sent THEN
                  /\ in_flight' = [in_flight EXCEPT ![c] = @ \cup {t}]
                  /\ io' = [io EXCEPT ![t] = "sent"]
                  /\ pc' = [pc EXCEPT ![t] = "sc_recv"]
                  /\ UNCHANGED <<conn_socket, conn_is_connected, orphan_sockets, res>>
               ELSE
                  /\ conn_is_connected' = [conn_is_connected EXCEPT ![c] = FALSE]
                  /\ res' = [res EXCEPT ![t] = Returned(meth[t], "Err")]
                  /\ io' = [io EXCEPT ![t] = "senderr"]
                  /\ pc' = [pc EXCEPT ![t] = "ret"]
                  /\ UNCHANGED <<conn_socket, orphan_sockets, in_flight>>
    /\ UNCHANGED <<svc_vars, at, self_conn, meth, auth_i, tried>>
    /\ Background

\* Mutant of SendCommandRecv: a command that got no reply is written again.
SendCommandRecvRetrying(t) ==
    LET c == self_conn[t] IN
    /\ pc[t] = "sc_recv"
    /\ \E reply \in Replies :
         /\ res' = [res EXCEPT ![t] = Returned(meth[t], ResponseOf(reply))]
         /\ io' = [io EXCEPT ![t] = IF reply = "" THEN "empty" ELSE "reply"]
         /\ pc' = [pc EXCEPT ![t] = IF reply = "" THEN "sc_send" ELSE "ret"]
    /\ in_flight' = [in_flight EXCEPT ![c] = @ \ {t}]
    /\ UNCHANGED <<svc_vars, conn_socket, conn_is_connected, orphan_sockets, at,
                   self_conn, writes, meth, auth_i, tried>>
    /\ Background

\* send_command, the read: _receive_data returns what arrived before the
\* timeout, "" when nothing did or when the read failed.
SendCommandRecv(t) ==
    LET c == self_conn[t] IN
    /\ pc[t] = "sc_recv"
    /\ \E reply \in Replies :
         /\ res' = [res EXCEPT ![t] = Returned(meth[t], ResponseOf(reply))]
         /\ io' = [io EXCEPT ![t] = IF reply = "" THEN "empty" ELSE "reply"]
    /\ in_flight' = [in_flight EXCEPT ![c] = @ \ {t}]
    /\ pc' = [pc EXCEPT ![t] = "ret"]
    /\ UNCHANGED <<svc_vars, conn_socket, conn_is_connected, orphan_sockets, at,
                   self_conn, writes, meth, auth_i, tried>>
    /\ Background

\* connect(), lines 52-69: a new socket replaces self.socket (a socket that
\* was there is not closed; whether the runtime finalises it at once is up
\* to the runtime), then the TCP connect.  When it raises, the handler
\* calls disconnect() and returns the error dict.  The welcome banner is
\* read and dropped.
ConnectOpen(t) ==
    LET c == self_conn[t] IN
    /\ pc[t] = "c_open"
    /\ OpenSockets(c) < MaxOpenSockets
    /\ \E finalised \in BOOLEAN, reachable \in (IF server_down THEN {FALSE} ELSE BOOLEAN) :
         /\ orphan_sockets' = [orphan_sockets EXCEPT ![c] =
                IF conn_socket[c] /\ ~finalised THEN @ + 1 ELSE @]
         /\ IF reachable THEN
               /\ conn_socket' = [conn_socket EXCEPT ![c] = TRUE]
               /\ pc' = [pc EXCEPT ![t] = "c_auth"]
               /\ auth_i' = [auth_i EXCEPT ![t] = 1]
               /\ UNCHANGED <<conn_is_connected, res>>
            ELSE
               /\ conn_socket' = [conn_socket EXCEPT ![c] = FALSE]
               /\ conn_is_connected' = [conn_is_connected EXCEPT ![c] = FALSE]
               /\ pc' = [pc EXCEPT ![t] = "ret"]
               /\ res' = [res EXCEPT ![t] = "Err"]
               /\ UNCHANGED auth_i
    /\ tried' = [tried EXCEPT ![t] = <<>>]
    /\ UNCHANGED <<svc_vars, in_flight, at, self_conn, io, writes, meth>>
    /\ Background

\* connect(), one turn of the auth_methods loop (lines 81-87 and 99-100):
\* the strategy talks to the server; on success is_connected is set and the
\* verification follows, otherwise the loop moves to the next strategy.
\* Without a socket _send_raw sends nothing and _receive_data returns "".
ConnectAuth(t) ==
    LET c == self_conn[t]
        i == auth_i[t] IN
    /\ pc[t] = "c_auth"
    /\ i <= NumAuthMethods
    /\ \E xs \in [1..(IF i = 3 THEN NumUsernames ELSE 1) ->
                    IF conn_socket[c] THEN Exchanges ELSE {""}] :
         LET ok == AuthFunc(i, xs) IN
         /\ tried' = [tried EXCEPT ![t] = Append(@, <<AuthName[i], ok>>)]
         /\ IF ok THEN
               /\ conn_is_connected' = [conn_is_connected EXCEPT ![c] = TRUE]
               /\ pc' = [pc EXCEPT ![t] = "c_verify"]
               /\ writes' = [writes EXCEPT ![t] = 0]
               /\ UNCHANGED auth_i
            ELSE
               /\ auth_i' = [auth_i EXCEPT ![t] = i + 1]
               /\ UNCHANGED <<conn_is_connected, pc, writes>>
    /\ UNCHANGED <<svc_vars, conn_socket, orphan_sockets, in_flight, at,
                   self_conn, res, io, meth>>
    /\ Background

\* connect(), lines 89-104: send_command("help") up to its write.  A None
\* result only logs a warning and connect() returns True; the error dict of
\* a raised write has no lower(), the AttributeError is caught by the
\* loop's handler and the loop continues with the next strategy.
ConnectVerifySend(t) ==
    LET c == self_conn[t] IN
    /\ pc[t] = "c_verify"
    /\ IF ~CanSend(c) THEN
          /\ res' = [res EXCEPT ![t] = "True"]
          /\ io' = [io EXCEPT ![t] = "notconnected"]
          /\ pc' = [pc EXCEPT ![t] = "ret"]
          /\ UNCHANGED <<conn_vars, writes, auth_i>>
       ELSE
          /\ writes' = [writes EXCEPT ![t] = @ + 1]
          /\ \E sent \in BOOLEAN :
               IF sent THEN
                  /\ in_flight' = [in_flight EXCEPT ![c] = @ \cup {t}]
                  /\ io' = [io EXCEPT ![t] = "sent"]
                  /\ pc' = [pc EXCEPT ![t] = "c_verify_recv"]
                  /\ UNCHANGED <<conn_socket, conn_is_connected, orphan_sockets,
                                 res, auth_i>>
               ELSE
                  /\ conn_is_connected' = [conn_is_connected EXCEPT ![c] = FALSE]
                  /\ io' = [io EXCEPT ![t] = "senderr"]
                  /\ auth_i' = [auth_i EXCEPT ![t] = @ + 1]
                  /\ pc' = [pc EXCEPT ![t] = "c_auth"]
                  /\ UNCHANGED <<conn_socket, orphan_sockets, in_flight, res>>
    /\ UNCHANGED <<svc_vars, at, self_conn, meth, tried>>
    /\ Background

\* connect(), lines 91-98: the verification reply is read and logged,
\* whatever it is, and connect() returns True.
ConnectVerifyRecv(t) ==
    LET c == self_conn[t] IN
    /\ pc[t] = "c_verify_recv"
    /\ \E reply \in Replies :
         io' = [io EXCEPT ![t] = IF reply = "" THEN "empty" ELSE "reply"]
    /\ in_flight' = [in_flight EXCEPT ![c] = @ \ {t}]
    /\ res' = [res EXCEPT ![t] = "True"]
    /\ pc' = [pc EXCEPT ![t] = "ret"]
    /\ UNCHANGED <<svc_vars, conn_socket, conn_is_connected, orphan_sockets, at,
                   self_conn, writes, meth, auth_i, tried>>
    /\ Background

\* Mutant of ConnectExhausted: False is returned without disconnect().
ConnectExhaustedKeepsSocket(t) ==
    /\ pc[t] = "c_auth"
    /\ auth_i[t] > NumAuthMethods
    /\ res' = [res EXCEPT ![t] = "False"]
    /\ pc' = [pc EXCEPT ![t] = "ret"]
    /\ UNCHANGED <<svc_vars, conn_vars, at, self_conn, io, writes, meth,
                   auth_i, tried>>
    /\ Background

\* connect(), lines 106-109: every strategy failed; disconnect(), False.
ConnectExhausted(t) ==
    LET c == self_conn[t] IN
    /\ pc[t] = "c_auth"
    /\ auth_i[t] > NumAuthMethods
    /\ DisconnectFields(c)
    /\ res' = [res EXCEPT ![t] = "False"]
    /\ pc' = [pc EXCEPT ![t] = "ret"]
    /\ UNCHANGED <<svc_vars, orphan_sockets, in_flight, at, self_conn, io, writes, meth,
                   auth_i, tried>>
    /\ Background

\* A step of a thread inside a client method.
ClientStep(t) ==
    \/ SendCommandSend(t)
    \/ SendCommandRecv(t)
    \/ ConnectOpen(t)
    \/ ConnectAuth(t)
    \/ ConnectVerifySend(t)
    \/ ConnectVerifyRecv(t)
    \/ ConnectExhausted(t)

\* ------------------------------------------------------------------- Init

InitService ==
    /\ is_running = FALSE
    /\ is_connected = FALSE
    /\ connection_handler = NoConn
    /\ reconnect_attempts = 0
    /\ stop_event = FALSE
    /\ wait_timeout = 0
    /\ fail_streak = 0

InitConnections ==
    /\ conn_socket = [c \in Conns |-> FALSE]
    /\ conn_is_connected = [c \in Conns |-> FALSE]
    /\ orphan_sockets = [c \in Conns |-> 0]
    /\ in_flight = [c \in Conns |-> {}]

InitCalls ==
    /\ pc = [t \in Threads |-> "idle"]
    /\ self_conn = [t \in Threads |-> NoConn]
    /\ res = [t \in Threads |-> "None"]
    /\ io = [t \in Threads |-> "none"]
    /\ writes = [t \in Threads |-> 0]
    /\ meth = [t \in Threads |-> "none"]
    /\ auth_i = [t \in Threads |-> 0]
    /\ tried = [t \in Threads |-> <<>>]

\* __init__, line 51: self.previous_players = {}; nothing polled, stored or
\* logged yet.
NothingTracked ==
    /\ previous_players = EmptyRoster
    /\ current_players = EmptyRoster
    /\ db_players = EmptyRoster
    /\ status_events = {}

\* The same, and a game server that is up and has no players.
InitTracking ==
    /\ server_down = FALSE
    /\ server_players = EmptyRoster
    /\ previous_players = EmptyRoster
    /\ current_players = EmptyRoster
    /\ db_players = EmptyRoster
    /\ status_events = {}

InitBackground ==
    /\ InitTracking
    /\ status_snap = <<>>
    /\ status_seen = {}
    /\ delay_in = 0
    /\ delay_out = 0
    /\ players_in = <<>>
    /\ players_out = <<>>

\* ------------------------------------ SpecConn: one client, one caller

\* The caller is between two calls.
CliReady == pc["cli"] \in {"idle", "ret"}

\* The caller enters method m of its client at position p.
CliEnter(m, p) ==
    /\ CliReady
    /\ meth' = [meth EXCEPT !["cli"] = m]
    /\ pc' = [pc EXCEPT !["cli"] = p]
    /\ writes' = [writes EXCEPT !["cli"] = 0]
    /\ io' = [io EXCEPT !["cli"] = "none"]
    /\ UNCHANGED <<svc_vars, conn_vars, at, self_conn, res, auth_i, tried>>
    /\ Background

CliConnect == CliEnter("connect", "c_open")
CliSendCommand == CliEnter("cmd", "sc_send")
CliIsConnectionAlive == CliEnter("alive", "sc_send")
\* kick_player (ban_player and unban_player differ in the command text only).
CliKickPlayer == CliEnter("kick", "sc_send")

\* disconnect() as one step of the caller.
CliDisconnect ==
    /\ CliReady
    /\ DisconnectFields(self_conn["cli"])
    /\ meth' = [meth EXCEPT !["cli"] = "disconnect"]
    /\ pc' = [pc EXCEPT !["cli"] = "ret"]
    /\ res' = [res EXCEPT !["cli"] = "None"]
    /\ UNCHANGED <<svc_vars, orphan_sockets, in_flight, at, self_conn, io, writes, auth_i, tried>>
    /\ Background

InitConn ==
    /\ InitService
    /\ InitConnections
    /\ pc = [t \in Threads |-> "idle"]
    /\ self_conn = [t \in Threads |-> IF t = "cli" THEN 1 ELSE NoConn]
    /\ res = [t \in Threads |-> "None"]
    /\ io = [t \in Threads |-> "none"]
    /\ writes = [t \in Threads |-> 0]
    /\ meth = [t \in Threads |-> "none"]
    /\ auth_i = [t \in Threads |-> 0]
    /\ tried = [t \in Threads |-> <<>>]
    /\ at = [t \in Threads |-> "dead"]
    /\ InitBackground

NextConn ==
    \/ CliConnect
    \/ CliDisconnect
    \/ CliSendCommand
    \/ CliIsConnectionAlive
    \/ CliKickPlayer
    \/ ClientStep("cli")

SpecConn == InitConn /\ [][NextConn]_vars


\* ------------------------------------------- Spec: the BackgroundService

\* An object nothing refers to: the id a new EmpyrionConnection gets.
Referenced(c) == connection_handler = c \/ \E t \in Threads : self_conn[t] = c
FreeConns == {c \in Conns : ~Referenced(c)}
Lowest(S) == CHOOSE c \in S : \A d \in S : c <= d

\* Thread t enters method m of object c at position p.
Enter(t, c, m, p) ==
    /\ self_conn' = [self_conn EXCEPT ![t] = c]
    /\ meth' = [meth EXCEPT ![t] = m]
    /\ pc' = [pc EXCEPT ![t] = p]
    /\ writes' = [writes EXCEPT ![t] = 0]
    /\ io' = [io EXCEPT ![t] = "none"]

\* Thread t has taken the returned value and drops its reference.
Leave(t) ==
    /\ self_conn' = [self_conn EXCEPT ![t] = NoConn]
    /\ pc' = [pc EXCEPT ![t] = "idle"]
    /\ meth' = [meth EXCEPT ![t] = "none"]
    /\ res' = [res EXCEPT ![t] = "None"]
    /\ io' = [io EXCEPT ![t] = "none"]
    /\ writes' = [writes EXCEPT ![t] = 0]
    /\ auth_i' = [auth_i EXCEPT ![t] = 0]
    /\ tried' = [tried EXCEPT ![t] = <<>>]

\* Mutant of ReconnectDelay: the exponent is not capped at 3.
ReconnectDelayUncapped(attempts) ==
    LET d == RECONNECT_DELAY * 2^(attempts - 1)
    IN IF d < MAX_RECONNECT_DELAY THEN d ELSE MAX_RECONNECT_DELAY

\* The reconnect delay _handle_connection_error computes (and logs).
ReconnectDelay(attempts) ==
    LET e == IF attempts - 1 < 3 THEN attempts - 1 ELSE 3
        d == RECONNECT_DELAY * 2^e
    IN IF d < MAX_RECONNECT_DELAY THEN d ELSE MAX_RECONNECT_DELAY

\* Mutant of HandleConnectionError: the attempt is not counted.
HandleConnectionErrorUncounted ==
    /\ is_connected' = FALSE
    /\ reconnect_attempts' = reconnect_attempts
    /\ IF connection_handler # NoConn
          THEN DisconnectFields(connection_handler)
          ELSE UNCHANGED <<conn_socket, conn_is_connected>>
    /\ connection_handler' = NoConn

\* _handle_connection_error: clear is_connected, count the attempt,
\* disconnect and drop the handler.
HandleConnectionError ==
    /\ is_connected' = FALSE
    /\ reconnect_attempts' = reconnect_attempts + 1
    /\ IF connection_handler # NoConn
          THEN DisconnectFields(connection_handler)
          ELSE UNCHANGED <<conn_socket, conn_is_connected>>
    /\ connection_handler' = NoConn

\* Mutant of MonLoop: the loop does not test is_running and the stop event.
MonLoopUnconditional(t) ==
    /\ at[t] = "loop"
    /\ at' = [at EXCEPT ![t] =
                IF ~is_connected \/ connection_handler = NoConn THEN "attempt"
                ELSE "alive"]
    /\ UNCHANGED <<svc_vars, conn_vars, call_vars>>
    /\ Background

\* _monitor_loop, lines 171-176: the loop test, then the choice between a
\* connect attempt and the liveness test.
MonLoop(t) ==
    /\ at[t] = "loop"
    /\ at' = [at EXCEPT ![t] =
                IF ~(is_running /\ ~stop_event) THEN "dead"
                ELSE IF ~is_connected \/ connection_handler = NoConn THEN "attempt"
                ELSE "alive"]
    /\ UNCHANGED <<svc_vars, conn_vars, call_vars>>
    /\ Background

\* line 181: self.connection_handler.is_connection_alive(); a handler that
\* stop() cleared since the test of line 176 raises AttributeError.
MonAliveCall(t) ==
    /\ at[t] = "alive"
    /\ IF connection_handler = NoConn
          THEN /\ at' = [at EXCEPT ![t] = "except"]
               /\ UNCHANGED <<self_conn, meth, pc, writes, io>>
          ELSE /\ at' = [at EXCEPT ![t] = "alive_ret"]
               /\ Enter(t, connection_handler, "alive", "sc_send")
    /\ UNCHANGED <<svc_vars, conn_vars, res, auth_i, tried>>
    /\ Background

\* lines 181-185: a dead connection is dropped (not disconnected) and a
\* connect attempt follows at once.
MonAliveResult(t) ==
    /\ at[t] = "alive_ret"
    /\ pc[t] = "ret"
    /\ IF res[t] = "True"
          THEN /\ at' = [at EXCEPT ![t] = "after"]
               /\ UNCHANGED <<is_connected, connection_handler>>
          ELSE /\ at' = [at EXCEPT ![t] = "attempt"]
               /\ is_connected' = FALSE
               /\ connection_handler' = NoConn
    /\ Leave(t)
    /\ UNCHANGED <<is_running, reconnect_attempts, stop_event, wait_timeout,
                   fail_streak, conn_vars>>
    /\ Background

\* _attempt_connection, lines 448-479: nothing when the service is not
\* running; the existing handler is disconnected; without a credential the
\* attempt fails here.
MonAttemptBegin(t) ==
    /\ at[t] = "attempt"
    /\ reconnect_attempts < MaxAttempts
    /\ IF ~is_running
          THEN /\ at' = [at EXCEPT ![t] = "after"]
               /\ UNCHANGED <<svc_vars, conn_vars>>
          ELSE \E password \in BOOLEAN :
               IF password
               THEN /\ IF connection_handler # NoConn
                          THEN DisconnectFields(connection_handler)
                          ELSE UNCHANGED <<conn_socket, conn_is_connected>>
                    /\ at' = [at EXCEPT ![t] = "create"]
                    /\ UNCHANGED <<svc_vars, orphan_sockets, in_flight>>
               ELSE /\ HandleConnectionError
                    /\ fail_streak' = fail_streak + 1
                    /\ at' = [at EXCEPT ![t] = "after"]
                    /\ UNCHANGED <<is_running, stop_event, wait_timeout,
                                   orphan_sockets, in_flight>>
    /\ UNCHANGED call_vars
    /\ Background

\* lines 482-487: self.connection_handler = EmpyrionConnection(...).
MonCreate(t) ==
    /\ at[t] = "create"
    /\ FreeConns # {}
    /\ NewConnection(Lowest(FreeConns))
    /\ connection_handler' = Lowest(FreeConns)
    /\ at' = [at EXCEPT ![t] = "connect"]
    /\ UNCHANGED <<is_running, is_connected, reconnect_attempts, stop_event,
                   wait_timeout, fail_streak, call_vars>>
    /\ Background

\* line 490: self.connection_handler.connect(); a handler that stop()
\* cleared since line 482 raises AttributeError, which the handler of
\* line 507 treats as a failed attempt.
MonConnectCall(t) ==
    /\ at[t] = "connect"
    /\ IF connection_handler = NoConn
          THEN /\ HandleConnectionError
               /\ fail_streak' = fail_streak + 1
               /\ at' = [at EXCEPT ![t] = "after"]
               /\ UNCHANGED <<is_running, stop_event, wait_timeout,
                              self_conn, meth, pc, writes, io>>
          ELSE /\ at' = [at EXCEPT ![t] = "connect_ret"]
               /\ Enter(t, connection_handler, "connect", "c_open")
               /\ UNCHANGED <<svc_vars, conn_socket, conn_is_connected>>
    /\ UNCHANGED <<orphan_sockets, in_flight, res, auth_i, tried>>
    /\ Background

\* lines 492-505: True marks the service connected and resets the attempt
\* count; anything else goes to _handle_connection_error.
MonConnectResult(t) ==
    /\ at[t] = "connect_ret"
    /\ pc[t] = "ret"
    /\ IF res[t] = "True"
          THEN /\ is_connected' = TRUE
               /\ reconnect_attempts' = 0
               /\ fail_streak' = 0
               /\ UNCHANGED <<connection_handler, conn_socket, conn_is_connected>>
          ELSE /\ HandleConnectionError
               /\ fail_streak' = fail_streak + 1
    /\ at' = [at EXCEPT ![t] = "after"]
    /\ Leave(t)
    /\ UNCHANGED <<is_running, stop_event, wait_timeout, orphan_sockets,
                   in_flight>>
    /\ Background

\* Mutant of MonAfter: the loop ends when the service is not connected
\* after the connection check.
MonAfterGivingUp(t) ==
    /\ at[t] = "after"
    /\ IF is_connected /\ connection_handler # NoConn /\ is_running
          THEN /\ at' = [at EXCEPT ![t] = "players"]
               /\ UNCHANGED wait_timeout
          ELSE /\ at' = [at EXCEPT ![t] = "dead"]
               /\ wait_timeout' = MONITOR_INTERVAL
    /\ UNCHANGED <<is_running, is_connected, connection_handler,
                   reconnect_attempts, stop_event, fail_streak, conn_vars,
                   call_vars>>
    /\ Background

\* lines 188-196: poll the roster when connected, else wait for the next
\* cycle.
MonAfter(t) ==
    /\ at[t] = "after"
    /\ IF is_connected /\ connection_handler # NoConn /\ is_running
          THEN /\ at' = [at EXCEPT ![t] = "players"]
               /\ UNCHANGED wait_timeout
          ELSE /\ at' = [at EXCEPT ![t] = "sleep"]
               /\ wait_timeout' = MONITOR_INTERVAL
    /\ UNCHANGED <<is_running, is_connected, connection_handler,
                   reconnect_attempts, stop_event, fail_streak, conn_vars,
                   call_vars>>
    /\ Background

\* _monitor_players, lines 557-568: returns at once when not running or
\* without a handler, else calls get_players().
MonPlayersCall(t) ==
    /\ at[t] = "players"
    /\ IF ~is_running \/ connection_handler = NoConn
          THEN /\ at' = [at EXCEPT ![t] = "reset"]
               /\ UNCHANGED <<self_conn, meth, pc, writes, io>>
          ELSE /\ at' = [at EXCEPT ![t] = "players_ret"]
               /\ Enter(t, connection_handler, "plys", "sc_send")
    /\ UNCHANGED <<svc_vars, conn_vars, res, auth_i, tried>>
    /\ Background

\* The roster a get_players result holds: [] is the empty roster, a parsed
\* reply the server's.
PolledRoster(r) == IF r = "EmptyList" THEN EmptyRoster ELSE server_players

\* _monitor_players, lines 570-597: an error result goes to
\* _handle_connection_error while the service runs; a list (also the empty
\* one) is given to the database and compared with the previous one.
MonPlayersResult(t) ==
    /\ at[t] = "players_ret"
    /\ pc[t] = "ret"
    /\ IF res[t] = "Err" /\ is_running
          THEN HandleConnectionError
          ELSE UNCHANGED <<is_connected, reconnect_attempts, connection_handler,
                           conn_socket, conn_is_connected>>
    /\ IF res[t] = "Err" \/ ~is_running
          THEN UNCHANGED track_vars
          ELSE /\ current_players' = PolledRoster(res[t])
               /\ db_players' = PolledRoster(res[t])
               /\ DetectStatusChanges(PolledRoster(res[t]))
               /\ UNCHANGED <<server_down, server_players>>
    /\ at' = [at EXCEPT ![t] = "reset"]
    /\ Leave(t)
    /\ UNCHANGED <<is_running, stop_event, wait_timeout, fail_streak,
                   orphan_sockets, in_flight>>
    /\ BackgroundStatus

\* Mutant of MonReset: the attempt count is left as the poll left it.
MonResetKeepingAttempts(t) ==
    /\ at[t] = "reset"
    /\ wait_timeout' = MONITOR_INTERVAL
    /\ at' = [at EXCEPT ![t] = "sleep"]
    /\ UNCHANGED <<is_running, is_connected, connection_handler, stop_event,
                   fail_streak, conn_vars, call_vars, reconnect_attempts>>
    /\ Background

\* lines 191-196: "reset on successful operation", then the wait.
MonReset(t) ==
    /\ at[t] = "reset"
    /\ reconnect_attempts' = 0
    /\ wait_timeout' = MONITOR_INTERVAL
    /\ at' = [at EXCEPT ![t] = "sleep"]
    /\ UNCHANGED <<is_running, is_connected, connection_handler, stop_event,
                   fail_streak, conn_vars, call_vars>>
    /\ Background

\* stop_event.wait returns: the timeout elapsed or the event was set.
MonWake(t) ==
    /\ at[t] = "sleep"
    /\ wait_timeout' = 0
    /\ at' = [at EXCEPT ![t] = "loop"]
    /\ UNCHANGED <<is_running, is_connected, connection_handler,
                   reconnect_attempts, stop_event, fail_streak, conn_vars,
                   call_vars>>
    /\ Background

\* lines 198-203: an exception in the loop body.
MonExcept(t) ==
    /\ at[t] = "except"
    /\ IF is_running
          THEN /\ HandleConnectionError
               /\ wait_timeout' = ERROR_PAUSE
               /\ at' = [at EXCEPT ![t] = "sleep"]
          ELSE /\ at' = [at EXCEPT ![t] = "loop"]
               /\ UNCHANGED <<is_connected, reconnect_attempts, connection_handler,
                              conn_socket, conn_is_connected, wait_timeout>>
    /\ UNCHANGED <<is_running, stop_event, fail_streak, orphan_sockets,
                   in_flight, call_vars>>
    /\ Background

\* A step of the thread t that runs _monitor_loop.
MonitorLoop(t) ==
    \/ MonLoop(t)
    \/ MonAliveCall(t)
    \/ MonAliveResult(t)
    \/ MonAttemptBegin(t)
    \/ MonCreate(t)
    \/ MonConnectCall(t)
    \/ MonConnectResult(t)
    \/ MonAfter(t)
    \/ MonPlayersCall(t)
    \/ MonPlayersResult(t)
    \/ MonReset(t)
    \/ MonWake(t)
    \/ MonExcept(t)
    \/ ClientStep(t)

\* The thread self.monitor_thread refers to.
Monitor == MonitorLoop("mon")

\* start(): a service that is not running is marked running, its
\* connection state is reset and the monitor and scheduler threads are
\* started.  Explored from the states in which the previous loop threads
\* have ended.
Start ==
    /\ at["ctl"] = "idle"
    /\ ~is_running
    /\ at["mon"] = "dead" /\ at["sch"] = "dead"
    /\ is_running' = TRUE
    /\ stop_event' = FALSE
    /\ is_connected' = FALSE
    /\ connection_handler' = NoConn
    /\ reconnect_attempts' = 0
    /\ fail_streak' = 0
    /\ at' = [at EXCEPT !["mon"] = "loop", !["sch"] = "loop"]
    /\ UNCHANGED <<wait_timeout, conn_vars, call_vars>>
    /\ Background

\* stop() is called.
StopCall ==
    /\ at["ctl"] = "idle"
    /\ at' = [at EXCEPT !["ctl"] = "stop"]
    /\ UNCHANGED <<svc_vars, conn_vars, call_vars>>
    /\ Background

\* stop(), lines 119-120: nothing to do when the service is not running.
StopReturn ==
    /\ at["ctl"] = "stop"
    /\ ~is_running
    /\ at' = [at EXCEPT !["ctl"] = "idle"]
    /\ UNCHANGED <<svc_vars, conn_vars, call_vars>>
    /\ Background

\* Mutant of StopBegin: stop() does not test is_running.
StopBeginUnguarded ==
    /\ at["ctl"] = "stop"
    /\ is_running' = FALSE
    /\ stop_event' = TRUE
    /\ at' = [at EXCEPT !["ctl"] = "stop_disconnect"]
    /\ UNCHANGED <<is_connected, connection_handler, reconnect_attempts,
                   wait_timeout, fail_streak, conn_vars, call_vars>>
    /\ Background

\* stop(), lines 119-125.
StopBegin ==
    /\ at["ctl"] = "stop"
    /\ is_running
    /\ is_running' = FALSE
    /\ stop_event' = TRUE
    /\ at' = [at EXCEPT !["ctl"] = "stop_disconnect"]
    /\ UNCHANGED <<is_connected, connection_handler, reconnect_attempts,
                   wait_timeout, fail_streak, conn_vars, call_vars>>
    /\ Background

\* stop(), line 128: _disconnect().
StopDisconnect ==
    /\ at["ctl"] = "stop_disconnect"
    /\ IF connection_handler # NoConn
          THEN DisconnectFields(connection_handler)
          ELSE UNCHANGED <<conn_socket, conn_is_connected>>
    /\ is_connected' = FALSE
    /\ connection_handler' = NoConn
    /\ at' = [at EXCEPT !["ctl"] = "stop_join"]
    /\ UNCHANGED <<is_running, reconnect_attempts, stop_event, wait_timeout,
                   fail_streak, orphan_sockets, in_flight, call_vars>>
    /\ Background

\* A thread that is inside connect() stays there longer than a join waits:
\* the TCP connect alone may take its 10 second timeout, and each strategy
\* sleeps a second before it reads.
OutlastsJoin(t) == meth[t] = "connect" /\ pc[t] \in {"c_open", "c_auth", "c_verify", "c_verify_recv"}

\* stop(), lines 131-132: monitor_thread.join(timeout=5) returns when the
\* thread has ended or when the 5 seconds are over.
StopJoin ==
    /\ at["ctl"] = "stop_join"
    /\ at["mon"] = "dead" \/ OutlastsJoin("mon")
    /\ at' = [at EXCEPT !["ctl"] = "stop_join_scheduler"]
    /\ UNCHANGED <<svc_vars, conn_vars, call_vars>>
    /\ Background

\* stop(), lines 134-137: scheduler_thread.join(timeout=5), then stop()
\* returns.  The scheduler thread is never inside connect().
StopJoinScheduler ==
    /\ at["ctl"] = "stop_join_scheduler"
    /\ at["sch"] = "dead" \/ OutlastsJoin("sch")
    /\ at' = [at EXCEPT !["ctl"] = "idle"]
    /\ UNCHANGED <<svc_vars, conn_vars, call_vars>>
    /\ Background

Control ==
    \/ Start
    \/ StopCall
    \/ StopReturn
    \/ StopBegin
    \/ StopDisconnect
    \/ StopJoin
    \/ StopJoinScheduler

\* _scheduler_loop, lines 218-235.  The thread is at the loop test, coming
\* from its start or from stop_event.wait(30), which returns when the
\* timeout has elapsed or the event is set.  A failed test ends the loop;
\* otherwise a tick in which the POI check is not due follows
\* (_check_scheduled_messages does nothing), and the wait again.
SchLoop ==
    /\ at["sch"] = "loop"
    /\ at' = [at EXCEPT !["sch"] =
                IF ~(is_running /\ ~stop_event) THEN "dead" ELSE "loop"]
    /\ UNCHANGED <<svc_vars, conn_vars, call_vars>>
    /\ Background

Scheduler == SchLoop

\* _scheduler_loop, lines 225-233, then _check_poi_timer and
\* _execute_automatic_poi_regeneration up to its notification: a tick of a
\* connected service in which the counter has reached 60 and the
\* regeneration is enabled and due.
SchPoiDue ==
    /\ at["sch"] = "loop"
    /\ is_running /\ ~stop_event
    /\ is_connected
    /\ at' = [at EXCEPT !["sch"] = "poi"]
    /\ UNCHANGED <<svc_vars, conn_vars, call_vars>>
    /\ Background

\* _send_poi_regeneration_notification, line 403: without a handler
\* nothing is sent, else is_connection_alive() is called.  The
\* regeneration then ends in its own exception handler (the client has no
\* get_entities) and the loop waits.
SchPoiAliveCall ==
    /\ at["sch"] = "poi"
    /\ IF connection_handler = NoConn
          THEN /\ at' = [at EXCEPT !["sch"] = "loop"]
               /\ UNCHANGED <<self_conn, meth, pc, writes, io>>
          ELSE /\ at' = [at EXCEPT !["sch"] = "poi_alive"]
               /\ Enter("sch", connection_handler, "alive", "sc_send")
    /\ UNCHANGED <<svc_vars, conn_vars, res, auth_i, tried>>
    /\ Background

\* lines 403-408: when the probe says alive, send_command('say ...') on
\* the handler as it is now; a handler dropped meanwhile raises, which the
\* method catches.
SchPoiAliveResult ==
    /\ at["sch"] = "poi_alive"
    /\ pc["sch"] = "ret"
    /\ IF res["sch"] = "True" /\ connection_handler # NoConn
          THEN /\ Enter("sch", connection_handler, "cmd", "sc_send")
               /\ at' = [at EXCEPT !["sch"] = "poi_say"]
               /\ UNCHANGED <<res, auth_i, tried>>
          ELSE /\ Leave("sch")
               /\ at' = [at EXCEPT !["sch"] = "loop"]
    /\ UNCHANGED <<svc_vars, conn_vars>>
    /\ Background

\* lines 409-415: the result is logged.
SchPoiDone ==
    /\ at["sch"] = "poi_say"
    /\ pc["sch"] = "ret"
    /\ Leave("sch")
    /\ at' = [at EXCEPT !["sch"] = "loop"]
    /\ UNCHANGED <<svc_vars, conn_vars>>
    /\ Background

SchedulerPoi ==
    \/ SchPoiDue
    \/ SchPoiAliveCall
    \/ SchPoiAliveResult
    \/ SchPoiDone
    \/ ClientStep("sch")

\* get_connection_handler()
GetConnectionHandler == IF is_connected THEN connection_handler ELSE NoConn

\* refresh_entities, lines 727-728: the handler is fetched and, for the
\* log line, asked whether it is alive.  Without a handler the request
\* ends with an error.
ReqBegin ==
    /\ at["req"] = "idle"
    /\ GetConnectionHandler # NoConn
    /\ Enter("req", GetConnectionHandler, "alive", "sc_send")
    /\ at' = [at EXCEPT !["req"] = "log_alive"]
    /\ UNCHANGED <<svc_vars, conn_vars, res, auth_i, tried>>
    /\ Background

\* refresh_entities, line 735: is_connection_alive() again, for the test.
ReqAliveAgain ==
    /\ at["req"] = "log_alive"
    /\ pc["req"] = "ret"
    /\ Enter("req", self_conn["req"], "alive", "sc_send")
    /\ at' = [at EXCEPT !["req"] = "check_alive"]
    /\ UNCHANGED <<svc_vars, conn_vars, res, auth_i, tried>>
    /\ Background

\* refresh_entities, lines 735-742: send_command('gents') when alive, else
\* the request ends with an error.
ReqAliveChecked ==
    /\ at["req"] = "check_alive"
    /\ pc["req"] = "ret"
    /\ IF res["req"] = "True"
          THEN /\ Enter("req", self_conn["req"], "cmd", "sc_send")
               /\ at' = [at EXCEPT !["req"] = "gents"]
               /\ UNCHANGED <<res, auth_i, tried>>
          ELSE /\ Leave("req")
               /\ at' = [at EXCEPT !["req"] = "idle"]
    /\ UNCHANGED <<svc_vars, conn_vars>>
    /\ Background

\* refresh_entities, from line 744: the reply (or the failure) is turned
\* into the response of the request.
ReqDone ==
    /\ at["req"] = "gents"
    /\ pc["req"] = "ret"
    /\ Leave("req")
    /\ at' = [at EXCEPT !["req"] = "idle"]
    /\ UNCHANGED <<svc_vars, conn_vars>>
    /\ Background

Request ==
    \/ ReqBegin
    \/ ReqAliveAgain
    \/ ReqAliveChecked
    \/ ReqDone
    \/ ClientStep("req")

Init ==
    /\ InitService
    /\ InitConnections
    /\ InitCalls
    /\ at = [t \in Threads |-> IF t \in {"req", "ctl"} THEN "idle" ELSE "dead"]
    /\ InitBackground

Next == Monitor \/ Scheduler \/ Control \/ Request

Spec == Init /\ [][Next]_vars

\* ------------------- SpecSvc: the service's own threads, POI ticks included

InitSvc ==
    /\ InitService
    /\ InitConnections
    /\ InitCalls
    /\ at = [t \in Threads |-> IF t \in {"ctl"} THEN "idle" ELSE "dead"]
    /\ InitBackground

NextSvc == Monitor \/ Scheduler \/ SchedulerPoi \/ Control

SpecSvc == InitSvc /\ [][NextSvc]_vars

\* The same, with each loop thread that can take a step eventually taking
\* one: the threads are scheduled by the operating system and every wait
\* and every socket operation has a timeout.  Nothing obliges the callers
\* of start() and stop() to call them.
SpecSvcLive ==
    /\ SpecSvc
    /\ WF_vars(Monitor)
    /\ WF_vars(Scheduler \/ SchedulerPoi)

\* ------------------- SpecRestart: start() while an older loop is alive

\* The steps of MonitorLoop(t) that a game server that is down leaves
\* enabled: every tick is a connect attempt that fails at the TCP connect.
MonitorLoopDown(t) ==
    \/ MonLoop(t)
    \/ MonAttemptBegin(t)
    \/ MonCreate(t)
    \/ MonConnectCall(t)
    \/ ConnectOpen(t)
    \/ MonConnectResult(t)
    \/ MonAfter(t)
    \/ MonWake(t)

\* The thread self.monitor_thread refers to, and a monitor thread it no
\* longer refers to.
NewMonitor == MonitorLoopDown("mon")
OldMonitor == MonitorLoopDown("old")

\* The per-thread variable f after a new monitor thread has replaced the
\* one that becomes the old one.
Orphaned(f, fresh) == [f EXCEPT !["old"] = f["mon"], !["mon"] = fresh]

\* start(), lines 83-100, called after a stop() whose join gave up: the
\* monitor thread of the previous run is still alive, self.monitor_thread
\* is overwritten with a new thread, and nothing ends the previous one.
\* (The scheduler thread never outlasts its join here, and one older
\* monitor thread at a time is explored.)
StartOverRunning ==
    /\ at["ctl"] = "idle"
    /\ ~is_running
    /\ at["mon"] # "dead" /\ at["old"] = "dead" /\ at["sch"] = "dead"
    /\ is_running' = TRUE
    /\ stop_event' = FALSE
    /\ is_connected' = FALSE
    /\ connection_handler' = NoConn
    /\ reconnect_attempts' = 0
    /\ fail_streak' = 0
    /\ at' = [at EXCEPT !["old"] = at["mon"], !["mon"] = "loop", !["sch"] = "loop"]
    /\ pc' = Orphaned(pc, "idle")
    /\ self_conn' = Orphaned(self_conn, NoConn)
    /\ res' = Orphaned(res, "None")
    /\ io' = Orphaned(io, "none")
    /\ writes' = Orphaned(writes, 0)
    /\ meth' = Orphaned(meth, "none")
    /\ auth_i' = Orphaned(auth_i, 0)
    /\ tried' = Orphaned(tried, <<>>)
    /\ in_flight' = [c \in Conns |->
                        IF "mon" \in in_flight[c]
                        THEN (in_flight[c] \ {"mon"}) \cup {"old"}
                        ELSE in_flight[c]]
    /\ UNCHANGED <<wait_timeout, conn_socket, conn_is_connected, orphan_sockets>>
    /\ Background

\* stop() has returned although the monitor thread is alive: the thread had
\* just entered connect() on the handler of line 482 when stop() set the
\* flags and disconnected, and the join of line 131 gave up after 5 s.  The
\* scheduler thread has ended.  (SpecSvc reaches this state.)  The game
\* server is down.
InitRestart ==
    /\ is_running = FALSE
    /\ stop_event = TRUE
    /\ is_connected = FALSE
    /\ connection_handler = NoConn
    /\ reconnect_attempts = 0
    /\ wait_timeout = 0
    /\ fail_streak = 0
    /\ InitConnections
    /\ at = [t \in Threads |-> IF t = "ctl" THEN "idle"
                                ELSE IF t = "mon" THEN "connect_ret" ELSE "dead"]
    /\ pc = [t \in Threads |-> IF t = "mon" THEN "c_open" ELSE "idle"]
    /\ self_conn = [t \in Threads |-> IF t = "mon" THEN 1 ELSE NoConn]
    /\ meth = [t \in Threads |-> IF t = "mon" THEN "connect" ELSE "none"]
    /\ res = [t \in Threads |-> "None"]
    /\ io = [t \in Threads |-> "none"]
    /\ writes = [t \in Threads |-> 0]
    /\ auth_i = [t \in Threads |-> 0]
    /\ tried = [t \in Threads |-> <<>>]
    /\ server_down = TRUE
    /\ server_players = EmptyRoster
    /\ NothingTracked
    /\ status_snap = <<>>
    /\ status_seen = {}
    /\ delay_in = 0
    /\ delay_out = 0
    /\ players_in = <<>>
    /\ players_out = <<>>

NextRestart == NewMonitor \/ OldMonitor \/ Scheduler \/ StartOverRunning

SpecRestart == InitRestart /\ [][NextRestart]_vars

\* ------------------------- SpecPoll: the service and a populated server

\* As InitSvc, with one player online on the game server.
InitPoll ==
    /\ InitService
    /\ InitConnections
    /\ InitCalls
    /\ at = [t \in Threads |-> IF t \in {"ctl"} THEN "idle" ELSE "dead"]
    /\ server_down = FALSE
    /\ server_players = [id \in {"7"} |-> "Online"]
    /\ NothingTracked
    /\ status_snap = <<>>
    /\ status_seen = {}
    /\ delay_in = 0
    /\ delay_out = 0
    /\ players_in = <<>>
    /\ players_out = <<>>

NextPoll == Monitor \/ Scheduler \/ Control

SpecPoll == InitPoll /\ [][NextPoll]_vars

\* ------------------------ SpecStatus: get_connection_status, concurrently

\* get_connection_status, lines 146-147: the call begins and copies
\* is_connected, the first entry of the dict it builds.
StatusReadConnected ==
    /\ at["stat"] \in {"idle", "done"}
    /\ status_snap' = <<is_connected>>
    /\ status_seen' = {MonitorState}
    /\ at' = [at EXCEPT !["stat"] = "read_attempts"]
    /\ UNCHANGED <<svc_vars, conn_vars, call_vars, pure_vars, track_vars>>

\* line 149: reconnect_attempts is copied (last_attempt before it).
StatusReadAttempts ==
    /\ at["stat"] = "read_attempts"
    /\ status_snap' = Append(status_snap, reconnect_attempts)
    /\ status_seen' = Agreeing(status_snap', status_seen \cup {MonitorState})
    /\ at' = [at EXCEPT !["stat"] = "read_running"]
    /\ UNCHANGED <<svc_vars, conn_vars, call_vars, pure_vars, track_vars>>

\* lines 150-151: is_running is copied and the dict is returned.
StatusReadRunning ==
    /\ at["stat"] = "read_running"
    /\ status_snap' = Append(status_snap, is_running)
    /\ status_seen' = Agreeing(status_snap', status_seen \cup {MonitorState})
    /\ at' = [at EXCEPT !["stat"] = "done"]
    /\ UNCHANGED <<svc_vars, conn_vars, call_vars, pure_vars, track_vars>>

Status ==
    \/ StatusReadConnected
    \/ StatusReadAttempts
    \/ StatusReadRunning

InitStatus ==
    /\ InitService
    /\ InitConnections
    /\ InitCalls
    /\ at = [t \in Threads |-> IF t \in {"ctl", "stat"} THEN "idle" ELSE "dead"]
    /\ InitBackground

NextStatus == Monitor \/ Scheduler \/ Control \/ Status

SpecStatus == InitStatus /\ [][NextStatus]_vars

\* --------------------------------------- SpecDelay: the reconnect delay

\* The service and the clients at rest.
InitIdle ==
    /\ InitService
    /\ InitConnections
    /\ InitCalls
    /\ InitTracking
    /\ at = [t \in Threads |-> "dead"]
    /\ status_snap = <<>>
    /\ status_seen = {}

InitDelay ==
    /\ InitIdle
    /\ delay_in \in 1..MaxDelayAttempt
    /\ delay_out = 0
    /\ players_in = <<>>
    /\ players_out = <<>>

\* _handle_connection_error, lines 537-539: the delay for the attempt count.
ComputeDelay ==
    /\ delay_out = 0
    /\ delay_out' = ReconnectDelay(delay_in)
    /\ UNCHANGED <<svc_vars, conn_vars, at, call_vars, stat_vars, delay_in,
                   players_in, players_out, track_vars>>

NextDelay == ComputeDelay

SpecDelay == InitDelay /\ [][NextDelay]_vars

\* ----------------------------- SpecDetect: _detect_status_changes alone

\* A started service that has not polled yet.
InitDetect ==
    /\ InitIdle
    /\ delay_in = 0
    /\ delay_out = 0
    /\ players_in = <<>>
    /\ players_out = <<>>

\* start(), lines 83-86, with the threads left out.
DetectStart ==
    /\ ~is_running
    /\ is_running' = TRUE
    /\ UNCHANGED <<is_connected, connection_handler, reconnect_attempts, stop_event,
                   wait_timeout, fail_streak, conn_vars, at, call_vars, stat_vars,
                   pure_vars, track_vars>>

\* Players join and leave the game server.
ServerPlayersChange ==
    /\ server_players' \in Rosters
    /\ UNCHANGED <<svc_vars, conn_vars, at, call_vars, stat_vars, pure_vars,
                   server_down, previous_players, current_players, db_players,
                   status_events>>

\* _monitor_players, lines 584-592, with a roster parsed from a reply.
DetectPolled ==
    /\ is_running
    /\ current_players' = server_players
    /\ db_players' = server_players
    /\ DetectStatusChanges(server_players)
    /\ UNCHANGED <<svc_vars, conn_vars, at, call_vars, stat_vars, pure_vars,
                   server_down, server_players>>

NextDetect == DetectStart \/ ServerPlayersChange \/ DetectPolled

SpecDetect == InitDetect /\ [][NextDetect]_vars

\* ------------------------------------- SpecMerge: _merge_player_data

\* The ids, names and field values the roster lines are drawn from.  "-3" is
\* a negative id, "" a missing one.
PlayerIds == {"7", "9", "-3", ""}
\* steam_id.lstrip('-').isdigit() and int(steam_id) < 0
IsNegativeId(id) == id = "-3"
\* Mutant of SkippedId: only a missing id is skipped.
SkippedIdEmptyOnly(id) == id = ""
\* "if not steam_id: continue" and the negative-id test of both passes.
SkippedId(id) == id = "" \/ IsNegativeId(id)

\* The position of name.lower() in the order of the lower-cased names
\* ("amy" < "zed", although "Zed" < "amy" as written).
LowerNameRank(name) == IF name = "amy" THEN 1 ELSE 2

\* One roster line: the section it stands in and the fields the section's
\* parser extracts from it.
Lines ==
    [section : {"connected"}, id : {"7", "9"}, name : {"amy"},
     playfield : {"Akua"}, ip : {"1.2.3.4"}, faction : {""}, role : {""},
     playtime : {0}]
    \cup
    [section : {"online"}, id : {"7", "9"}, name : {"Zed"},
     playfield : {""}, ip : {""}, faction : {"Abc"}, role : {"Player"},
     playtime : {0}]
    \cup
    [section : {"global"}, id : PlayerIds, name : {"amy"},
     playfield : {""}, ip : {""}, faction : {""}, role : {""},
     playtime : {0, 5}]

\* The dict _parse_connected_player returns.
ParsedConnected(l) ==
    [steam_id |-> l.id, name |-> l.name, status |-> "Online",
     playfield |-> l.playfield, ip_address |-> l.ip, faction |-> "",
     role |-> "", ping |-> 0]
\* The dict _parse_online_player returns.
ParsedOnline(l) ==
    [steam_id |-> l.id, name |-> l.name, status |-> "Online",
     faction |-> l.faction, role |-> l.role, playfield |-> "",
     ip_address |-> "", ping |-> 0]
\* The dict _parse_global_player returns.
ParsedGlobal(l) ==
    [steam_id |-> l.id, name |-> l.name, status |-> "Offline",
     faction |-> l.faction, role |-> l.role, playfield |-> "",
     ip_address |-> "", ping |-> 0, total_playtime |-> l.playtime]
\* get_players' dispatch on the current section.
ParsedLine(l) ==
    CASE l.section = "connected" -> ParsedConnected(l)
      [] l.section = "online" -> ParsedOnline(l)
      [] OTHER -> ParsedGlobal(l)

\* Python falsiness of a field value: 0 for the numeric fields, '' for the
\* others; r.get(k) of a missing key is None, falsy too.
FalsyValue(k, v) == IF k \in {"ping", "total_playtime"} THEN v = 0 ELSE v = ""
FalsyField(r, k) == k \notin DOMAIN r \/ FalsyValue(k, r[k])

\* First pass: the ids with an address or a playfield, and the ids of
\* records that say Online and carry no playtime.
ConnectedSteamIds(players) ==
    {players[i].steam_id : i \in {j \in 1..Len(players) :
        /\ ~SkippedId(players[j].steam_id)
        /\ (~FalsyField(players[j], "ip_address") \/ ~FalsyField(players[j], "playfield"))}}
OnlineSteamIds(players) ==
    {players[i].steam_id : i \in {j \in 1..Len(players) :
        /\ ~SkippedId(players[j].steam_id)
        /\ players[j].status = "Online"
        /\ FalsyField(players[j], "total_playtime")}}

\* Mutant of TakesValue: every incoming value is taken, an empty one too.
TakesValueAlways(existing, player, k) == k \in DOMAIN player

\* Second pass, the record already in merged: existing[key] = value for
\* every non-empty value whose key is empty in existing, or is status, or
\* is ip_address or playfield.
TakesValue(existing, player, k) ==
    /\ k \in DOMAIN player
    /\ ~FalsyValue(k, player[k])
    /\ (FalsyField(existing, k) \/ k \in {"status", "ip_address", "playfield"})
MergeInto(existing, player) ==
    [k \in DOMAIN existing \cup {x \in DOMAIN player : TakesValue(existing, player, x)} |->
        IF TakesValue(existing, player, k) THEN player[k] ELSE existing[k]]

\* Mutant of MergePass: every record is added, also one whose id is already
\* in merged.
RECURSIVE MergePassAppending(_, _, _)
MergePassAppending(players, i, merged) ==
    IF i > Len(players) THEN merged
    ELSE IF SkippedId(players[i].steam_id) THEN MergePassAppending(players, i + 1, merged)
    ELSE MergePassAppending(players, i + 1, Append(merged, players[i]))

\* Second pass over players[i..]: merged is the dict so far, in insertion
\* order.
RECURSIVE MergePass(_, _, _)
MergePass(players, i, merged) ==
    IF i > Len(players) THEN merged
    ELSE IF SkippedId(players[i].steam_id) THEN MergePass(players, i + 1, merged)
    ELSE IF \E j \in 1..Len(merged) : merged[j].steam_id = players[i].steam_id
         THEN MergePass(players, i + 1,
                  [j \in 1..Len(merged) |->
                      IF merged[j].steam_id = players[i].steam_id
                      THEN MergeInto(merged[j], players[i]) ELSE merged[j]])
         ELSE MergePass(players, i + 1, Append(merged, players[i]))

\* Mutant of FinalStatus: the status the second pass left is kept.
FinalStatusAsMerged(players, merged) == merged

\* Third pass: the status by the sets of the first pass.
FinalStatus(players, merged) ==
    [j \in 1..Len(merged) |->
        [merged[j] EXCEPT !.status =
            IF merged[j].steam_id \in ConnectedSteamIds(players) THEN "Online"
            ELSE IF merged[j].steam_id \in OnlineSteamIds(players) THEN "Online"
            ELSE "Offline"]]

\* result.sort(key=(status != 'Online', name.lower())): a stable sort.
SortsBefore(p, q) ==
    LET kp == IF p.status # "Online" THEN 1 ELSE 0
        kq == IF q.status # "Online" THEN 1 ELSE 0
    IN kp < kq \/ (kp = kq /\ LowerNameRank(p.name) < LowerNameRank(q.name))
RECURSIVE InsertSorted(_, _)
InsertSorted(sorted, p) ==
    IF sorted = <<>> THEN <<p>>
    ELSE IF SortsBefore(p, sorted[Len(sorted)])
         THEN Append(InsertSorted(SubSeq(sorted, 1, Len(sorted) - 1), p), sorted[Len(sorted)])
         ELSE Append(sorted, p)
RECURSIVE SortPlayers(_)
SortPlayers(result) ==
    IF result = <<>> THEN <<>>
    ELSE InsertSorted(SortPlayers(SubSeq(result, 1, Len(result) - 1)), result[Len(result)])

\* _merge_player_data(players)
MergePlayerData(players) ==
    SortPlayers(FinalStatus(players, MergePass(players, 1, <<>>)))

\* The lists of at most MaxRecords lines.
LineLists == UNION {[1..n -> Lines] : n \in 0..MaxRecords}

InitMerge ==
    /\ InitIdle
    /\ delay_in = 0
    /\ delay_out = 0
    /\ players_in \in LineLists
    /\ players_out = <<>>

\* get_players, lines 264-309: the lines are parsed by section and the
\* records merged.
MergeParsed ==
    /\ pc["cli"] = "idle"
    /\ players_out' = MergePlayerData([i \in 1..Len(players_in) |-> ParsedLine(players_in[i])])
    /\ meth' = [meth EXCEPT !["cli"] = "merge"]
    /\ pc' = [pc EXCEPT !["cli"] = "ret"]
    /\ UNCHANGED <<svc_vars, conn_vars, at, self_conn, res, io, writes, auth_i,
                   tried, stat_vars, delay_in, delay_out, players_in, track_vars>>

NextMerge == MergeParsed

SpecMerge == InitMerge /\ [][NextMerge]_vars

\* ----------------------------------------------------------------- claims

\* Thread t's connect() has returned.
ConnectReturned(t) == meth[t] = "connect" /\ pc[t] = "ret"

\* C5: a client never holds more than one open socket: connect() on a client
\* whose socket is open closes that socket before it creates the new one.
AtMostOneOpenSocket == \A c \in Conns : OpenSockets(c) <= 1

\* C6: the strategies are tried in the fixed order standard, direct_command,
\* username_password, newline_only; a strategy is tried only when every one
\* before it did not succeed, so nothing is tried after the first success,
\* and connect() returns True only with the last strategy tried succeeding.
AuthFirstSuccessWins ==
    \A t \in Threads :
        /\ \A k \in 1..Len(tried[t]) :
              /\ tried[t][k][1] = AuthName[k]
              /\ k < Len(tried[t]) => ~tried[t][k][2]
        /\ ConnectReturned(t) /\ res[t] = "True" =>
              Len(tried[t]) > 0 /\ tried[t][Len(tried[t])][2]

\* C7: verification is advisory: once a strategy has reported success no
\* further strategy is tried and connect() returns True, whatever happens
\* to the 'help' command that follows.
VerificationIsAdvisory ==
    \A t \in Threads : \A k \in 1..Len(tried[t]) :
        tried[t][k][2] =>
            /\ k = Len(tried[t])
            /\ ConnectReturned(t) => res[t] = "True"

AliveIffReplied ==
    \A t \in Threads :
        meth[t] = "alive" /\ pc[t] = "ret" =>
            (res[t] = "True" <=> io[t] = "reply")


\* C1: no two commands are in flight on one connection: between the write
\* of a command and the read of its reply no other thread writes a command
\* to the same client.
NoOverlappingCommands == \A c \in Conns : Cardinality(in_flight[c]) <= 1

\* C2: after a failed connect attempt the monitor loop waits
\* min(30 * 2^min(k-1,3), 300) seconds, k the attempt count, before the
\* next attempt.
WaitIsReconnectDelay ==
    at["mon"] = "sleep" /\ fail_streak >= 1 =>
        wait_timeout = ReconnectDelay(reconnect_attempts)

AttemptsGrowOnlyInConnect ==
    [][reconnect_attempts' > reconnect_attempts =>
          at["mon"] \in {"attempt", "connect", "connect_ret"}]_vars

\* C10: a send_command call writes its command at most once, and a call
\* whose write or read failed returns None or the error dict.
NoCommandResent ==
    \A t \in Threads :
        /\ writes[t] <= 1
        /\ meth[t] = "cmd" /\ pc[t] = "ret" /\ io[t] # "reply" =>
              res[t] \in {"None", "Err"}

\* C10 witness: a request's command was written once, got no reply and
\* returned None.
CommandFailedOnce ==
    /\ meth["req"] = "cmd" /\ pc["req"] = "ret"
    /\ io["req"] = "empty" /\ writes["req"] = 1 /\ res["req"] = "None"

\* C11: a failed roster poll of the monitor loop (no reply, or an I/O error
\* while sending or receiving 'plys') makes the running service mark itself
\* disconnected and drop the handler within that tick.
RosterFailureDisconnects ==
    [][(/\ at["mon"] = "players_ret" /\ pc["mon"] = "ret"
        /\ at'["mon"] = "reset"
        /\ io["mon"] \in {"empty", "senderr"}
        /\ is_running)
          => (~is_connected' /\ connection_handler' = NoConn)]_vars

Min2(a, b) == IF a <= b THEN a ELSE b

\* C18: the delay computed for attempt k >= 1 is min(30 * 2^min(k-1,3), 300),
\* lies in [30, 300], and delay(1) < delay(2) < delay(3) < delay(4) = delay(5).
DelayFormula ==
    delay_out # 0 =>
        /\ delay_out = Min2(30 * 2^Min2(delay_in - 1, 3), 300)
        /\ delay_out >= 30 /\ delay_out <= 300
        /\ delay_in = 1 => delay_out < ReconnectDelay(2)
        /\ delay_in = 2 => delay_out < ReconnectDelay(3)
        /\ delay_in = 3 => delay_out < ReconnectDelay(4)
        /\ delay_in = 4 => delay_out = ReconnectDelay(5)

\* C18 witness: the delay for the fifth attempt has been computed, and it
\* is the one of the fourth.
DelayOfFifthAttempt ==
    delay_in = 5 /\ delay_out = 240

\* The merge has returned.
MergeReturned == meth["cli"] = "merge" /\ pc["cli"] = "ret"
\* The lines of the reply that stand in section sec.
LinesOf(sec) == {i \in 1..Len(players_in) : players_in[i].section = sec}

\* C19: the merged roster has exactly one record for every non-negative id
\* of the input and no record for any other id.
MergedOnePerId ==
    MergeReturned =>
        LET ids == {players_in[i].id : i \in 1..Len(players_in)} \cap {"7", "9"}
        IN /\ \A id \in ids :
                Cardinality({j \in 1..Len(players_out) : players_out[j].steam_id = id}) = 1
           /\ \A j \in 1..Len(players_out) : players_out[j].steam_id \in ids

\* C19 witness: a connected line and a global line for id 7 gave one record.
ConnectedAndGlobalMerged ==
    /\ MergeReturned
    /\ \E i \in LinesOf("connected") : players_in[i].id = "7"
    /\ \E i \in LinesOf("global") : players_in[i].id = "7"
    /\ Len(players_out) = 1 /\ players_out[1].steam_id = "7"

\* C20: in the merged roster an id is Online exactly when a line of the
\* connected or of the online section carries it, and Offline otherwise,
\* whatever the order of the lines.
OnlineIffListed ==
    MergeReturned =>
        \A j \in 1..Len(players_out) :
            /\ players_out[j].status \in {"Online", "Offline"}
            /\ players_out[j].status = "Online" <=>
                  \E i \in LinesOf("connected") \cup LinesOf("online") :
                      players_in[i].id = players_out[j].steam_id

\* C20 witness: id 7 stands in the online section and, after that, in the
\* global section, and is Online in the merged roster.
OnlineThenGlobalIsOnline ==
    /\ MergeReturned
    /\ Len(players_in) = 2
    /\ players_in[1].section = "online" /\ players_in[1].id = "7"
    /\ players_in[2].section = "global" /\ players_in[2].id = "7"
    /\ players_out[1].status = "Online"

\* C16: stop() on a service that is not running changes nothing of the
\* service or of its clients and returns without a disconnect or a join.
StopIdempotent ==
    [][(at["ctl"] = "stop" /\ ~is_running /\ at'["ctl"] # "stop")
          => /\ at'["ctl"] = "idle"
             /\ UNCHANGED <<is_running, is_connected, connection_handler,
                            reconnect_attempts, stop_event, conn_vars>>]_vars

\* C16 witness: stop() has been called on a service that an earlier stop()
\* stopped.
StopCalledWhenStopped ==
    at["ctl"] = "stop" /\ ~is_running /\ stop_event

\* C14: whenever stop() has returned and the service is not running,
\* neither the monitor loop thread nor the scheduler loop thread is active.
StoppedMeansNoThreads ==
    at["ctl"] = "idle" /\ ~is_running =>
        at["mon"] = "dead" /\ at["sch"] = "dead"

\* The monitor thread is inside _attempt_connection.
AttemptInProgress == at["mon"] \in {"attempt", "create", "connect", "connect_ret"}

\* C12: while the service is running and not connected, a connect attempt
\* is always eventually made (or the service is stopped): no failure ends
\* the monitor loop and no number of failures ends the attempts.
ReconnectAlwaysRetried ==
    (is_running /\ ~is_connected) ~> (AttemptInProgress \/ ~is_running)

\* C12 witness: the monitor loop is making its third attempt after two
\* failed ones.
ThirdAttemptAfterTwoFailures ==
    at["mon"] = "create" /\ fail_streak = 2 /\ is_running /\ ~is_connected

\* C13: after a stop() that came while both loops were waiting between
\* ticks, neither loop runs another tick, is_running stays false until a
\* start(), and both loops eventually end.
StopWhileSleepingEnds ==
    /\ [][(~is_running /\ at["mon"] \in {"sleep", "loop"})
             => at'["mon"] \in {"sleep", "loop", "dead"}]_vars
    /\ [][(~is_running /\ at["sch"] = "loop")
             => at'["sch"] \in {"loop", "dead"}]_vars
    /\ [][(~is_running /\ is_running')
             => (at["mon"] = "dead" /\ at["sch"] = "dead" /\ at["ctl"] = "idle")]_vars
    /\ (~is_running /\ at["mon"] = "sleep" /\ at["sch"] = "loop")
           ~> (at["mon"] = "dead" /\ at["sch"] = "dead")

\* C13 witness: stop() has set its flags and both loops are waiting
\* between ticks.
StopFlagsSetWhileSleeping ==
    /\ at["ctl"] = "stop_disconnect"
    /\ ~is_running /\ stop_event
    /\ at["mon"] = "sleep" /\ at["sch"] = "loop"

\* C15: the status get_connection_status returns is the MonitorState of
\* one instant of the call: the fields it copied were all in force together
\* at some moment between its first and its last read.
StatusIsSnapshot ==
    at["stat"] = "done" =>
        <<status_snap[1], status_snap[2], status_snap[3]>> \in status_seen


\* The records get_players hands to _merge_player_data.
ParsedInput == [i \in 1..Len(players_in) |-> ParsedLine(players_in[i])]
NotNegative(p) == ~IsNegativeId(p.steam_id)

\* C21: no record of the merged roster has a negative id, and the merged
\* roster is the one the same input gives without its negative-id records.
NegativeIdsDropped ==
    MergeReturned =>
        /\ \A j \in 1..Len(players_out) : ~IsNegativeId(players_out[j].steam_id)
        /\ players_out = MergePlayerData(SelectSeq(ParsedInput, NotNegative))
NegativeIdAmongOthers ==
    /\ MergeReturned
    /\ \E i, j \in 1..Len(players_in) :
          IsNegativeId(players_in[i].id) /\ players_in[j].id = "7"
    /\ Len(players_out) = 1

\* C22: kick_player (ban_player, unban_player) returns True exactly when
\* the server replied to its command; not connected, no reply and a failed
\* write all give False.
WrapperTrueIffReplied ==
    (meth["cli"] = "kick" /\ pc["cli"] = "ret") =>
        (res["cli"] = "True" <=> io["cli"] = "reply")

\* C23: a step that makes connection_handler stop referring to a handler
\* leaves that handler without an open socket.
DroppedHandlerIsClosed ==
    [][\A c \in Conns :
          (connection_handler = c /\ connection_handler' # c) => ~conn_socket'[c]]_vars

\* The input records of id x, in input order.
RecordsOf(x) == SelectSeq(ParsedInput, LAMBDA p : p.steam_id = x)
\* The positions of the records of id x that carry a non-empty field k.
Carrying(x, k) == {i \in 1..Len(RecordsOf(x)) : ~FalsyField(RecordsOf(x)[i], k)}
\* The fields other than the id, the status and the connection fields.
OtherFields == {"name", "faction", "role", "total_playtime"}

HasStatus(r, id, st) == id \in DOMAIN r /\ r[id] = st

\* C25: a poll of a running service logs a join for an id exactly when the
\* id was Offline (or unknown) before and is Online now, a leave exactly when
\* it was Online before and is Offline now, and leaves previous_players
\* equal to the polled roster.
StatusChangesReported ==
    [][/\ previous_players' = current_players'
       /\ \A id \in TrackedIds :
            /\ (<<id, "joined">> \in status_events' \/ <<id, "new">> \in status_events')
                  <=> /\ HasStatus(current_players', id, "Online")
                      /\ (HasStatus(previous_players, id, "Offline")
                             \/ id \notin DOMAIN previous_players)
            /\ <<id, "left">> \in status_events'
                  <=> /\ HasStatus(current_players', id, "Offline")
                      /\ HasStatus(previous_players, id, "Online")
      ]_<<previous_players, current_players, db_players, status_events>>
JoinAndLeaveInOnePoll ==
    /\ <<"7", "joined">> \in status_events
    /\ <<"9", "left">> \in status_events
    /\ <<"11", "new">> \in status_events
    /\ previous_players = current_players

\* C26: a roster poll whose command got no reply leaves the database and
\* previous_players as they were.
NoReplyPollStoresNothing ==
    [][(at["mon"] = "players_ret" /\ pc["mon"] = "ret" /\ io["mon"] = "empty")
          => (db_players' = db_players /\ previous_players' = previous_players)]_vars

ConnectedHasHandler == is_connected => connection_handler # NoConn

\* C29: when stop() has returned and both loops have ended, the service is
\* not connected, has no handler, and no connection object has an open
\* socket.
StoppedHoldsNoConnection ==
    (at["ctl"] = "idle" /\ ~is_running /\ at["mon"] = "dead" /\ at["sch"] = "dead") =>
        /\ ~is_connected
        /\ connection_handler = NoConn
        /\ \A c \in Conns : OpenSockets(c) = 0

\* C30: at most one thread is executing _monitor_loop.
AtMostOneMonitorLoop == ~(at["mon"] # "dead" /\ at["old"] # "dead")
=============================================================================
